---- MODULE Spec2Model ----
(***************************************************************************)
(* Desired-state reconciliation of an OCI Autonomous Data Warehouse, as    *)
(* implemented by library/oci_autonomous_data_warehouse.py.                *)
(*                                                                         *)
(* One invocation of the Ansible module runs main(): it dispatches on      *)
(* module.params["state"] to create/update, delete, restore or start/stop, *)
(* every one of which talks to the remote control plane through the        *)
(* DatabaseClient and the shared helper functions of oci_utils and         *)
(* oci_db_utils.  Invocations run one after the other against a single     *)
(* remote resource, which also changes its lifecycle state on its own.     *)
(***************************************************************************)
EXTENDS Integers, Sequences, FiniteSets, TLC

VARIABLES
    adw,                        \* the remote resource held by the control plane
    pc,                         \* position of the running invocation
    params,                     \* module.params of the running invocation
    autonomous_data_warehouse,  \* local of start_or_stop_autonomous_data_warehouse
    calls,                      \* remote calls and waits issued so far, in order
    states,                     \* acceptable states of the wait in progress
    polls,                      \* polls made by the wait in progress
    result,                     \* how the invocation ended
    ref,                        \* the life of the resource identifier so far
    last_run                    \* what the run before this one asked for and got

vars ==
    <<adw, pc, params, autonomous_data_warehouse, calls, states, polls, result, ref,
      last_run>>

----------------------------------------------------------------------------
(* Python values.  None is the empty tuple and a present value v is <<v>>,  *)
(* so that a value and None always compare.                                 *)

None == <<>>

Some(v) == <<v>>

Val(o) == o[1]

\* Number of polls the wait helper makes before it gives up.
MaxPolls == 2

----------------------------------------------------------------------------
(* Inputs of an invocation.                                                 *)

DesiredStates == {"present", "absent", "restore", "start", "stop"}

\* "x" is the identifier the control plane gives the resource; "y" names nothing.
Ocid == "x"

Ids == {Ocid, "y"}

DisplayNames == {"dw1", "dw2"}

CpuCoreCounts == {2}

DbNames == {"db"}

Timestamps == {"2018-03-23T00:59:07.032Z", "2018-03-24T00:00:00.000Z"}

Opt(S) == {None} \cup {Some(v) : v \in S}

Params ==
    [state : DesiredStates,
     autonomous_data_warehouse_id : Opt(Ids),
     db_name : Opt(DbNames),
     display_name : Opt(DisplayNames),
     cpu_core_count : Opt(CpuCoreCounts),
     timestamp : Opt(Timestamps)]

NoParams ==
    [state |-> "none", autonomous_data_warehouse_id |-> None, db_name |-> None,
     display_name |-> None, cpu_core_count |-> None, timestamp |-> None]

----------------------------------------------------------------------------
(* Request models of the SDK and the requests built from module.params.     *)

CreateAttributeMap == {"db_name", "display_name", "cpu_core_count"}

UpdateAttributeMap == {"display_name", "cpu_core_count"}

RestoreAttributeMap == {"timestamp"}

\* A faulty variant of CreateDetails: display_name is not copied.
CreateDetails_NoDisplayName(p) ==
    [a \in CreateAttributeMap |-> IF a = "display_name" THEN None ELSE p[a]]

\* create_autonomous_data_warehouse, the attribute copy loop.
CreateDetails(p) == [a \in CreateAttributeMap |-> p[a]]

\* restore_autonomous_data_warehouse, the attribute copy loop.
RestoreDetails(p) == [a \in RestoreAttributeMap |-> p[a]]

\* A faulty variant of RestoreStates: FAILED does not end the wait.
RestoreStates_OnlyAvailable == {"AVAILABLE"}

\* restore_autonomous_data_warehouse, states=["AVAILABLE", "FAILED"].
RestoreStates == {"AVAILABLE", "FAILED"}

\* A faulty variant of IsUpdate: the identifier is ignored and the resource is created.
IsUpdate_Never(p) == FALSE

\* create_or_update_autonomous_data_warehouse: if autonomous_data_warehouse_id.
IsUpdate(p) == p.autonomous_data_warehouse_id # None

\* A faulty variant of IdempotentLifecycleState: the transitional states are left out.
IdempotentLifecycleState_NoTransitional(s) ==
    IF s = "start" THEN {"AVAILABLE"}
    ELSE IF s = "stop" THEN {"STOPPED"}
    ELSE {}

\* A faulty variant of IdempotentLifecycleState: the state aimed at is left out.
IdempotentLifecycleState_OnlyTransitional(s) ==
    IF s = "start" THEN {"STARTING"}
    ELSE IF s = "stop" THEN {"STOPPING"}
    ELSE {}

\* perform_start_or_stop: idempotent_lifecycle_state.
IdempotentLifecycleState(s) ==
    IF s = "start" THEN {"AVAILABLE", "STARTING"}
    ELSE IF s = "stop" THEN {"STOPPED", "STOPPING"}
    ELSE {}

\* A faulty variant of TargetState: the wait also accepts the other running state.
TargetState_Both(s) ==
    IF s \in {"start", "stop"} THEN {"AVAILABLE", "STOPPED"} ELSE {}

\* perform_start_or_stop: target_state.
TargetState(s) ==
    IF s = "start" THEN {"AVAILABLE"}
    ELSE IF s = "stop" THEN {"STOPPED"}
    ELSE {}

\* A faulty variant of LifecycleFunc: the two functions are swapped.
LifecycleFunc_Swapped(s) ==
    IF s = "start" THEN "stop"
    ELSE IF s = "stop" THEN "start"
    ELSE "None"

\* perform_start_or_stop: lifecycle_func.
LifecycleFunc(s) ==
    IF s = "start" THEN "start"
    ELSE IF s = "stop" THEN "stop"
    ELSE "None"

----------------------------------------------------------------------------
(* Exceptions and results.                                                  *)

ServiceError(status, message) ==
    [type |-> "ServiceError", status |-> status, message |-> message]

ClientError(message) == [type |-> "ClientError", args |-> <<message>>]

TypeError == [type |-> "TypeError", args |-> <<"must be str, not NoneType">>]

AttributeError ==
    [type |-> "AttributeError",
     args |-> <<"'NoneType' object has no attribute 'lifecycle_state'">>]

MaximumWaitTimeExceeded ==
    [type |-> "MaximumWaitTimeExceeded", args |-> <<"Maximum wait time has been exceeded">>]

WaitFailed(s) == [type |-> "WaitFailed", args |-> <<s>>]

\* str(ex) of an exception built from one argument.
Str(ex) == ex.args[1]

RequestException(message) == [type |-> "RequestException", args |-> <<message>>]

\* The faults a remote call can raise on its own: the control plane rejects
\* the request, the client does, or the request never gets through.
Faults ==
    {ServiceError(500, "InternalServerError"),
     ClientError("invalid request"),
     RequestException("connection reset")}

NotFoundError == ServiceError(404, "NotAuthorizedOrNotFound")

Conflict == ServiceError(409, "IncorrectState")

NoResult == [kind |-> "none"]

ExitJson(changed, resource) ==
    [kind |-> "exit_json", changed |-> changed, autonomous_data_warehouse |-> resource]

FailJson(msg) == [kind |-> "fail_json", msg |-> msg]

Uncaught(ex) == [kind |-> "exception", exc |-> ex]

\* A faulty variant of CreateOrUpdateExcept: a fixed text replaces the fault's message.
CreateOrUpdateExcept_FixedText(ex) ==
    IF ex.type \in {"ServiceError", "ClientError"}
    THEN FailJson("Unable to create/update autonomous data warehouse")
    ELSE Uncaught(ex)

\* A faulty variant of CreateOrUpdateExcept: any other exception is swallowed
\* and the result the function started with is returned.
CreateOrUpdateExcept_Swallowed(ex) ==
    IF ex.type = "ServiceError" THEN FailJson(ex.message)
    ELSE IF ex.type = "ClientError" THEN FailJson(Str(ex))
    ELSE ExitJson(FALSE, [lifecycle_state |-> "none"])

\* create_or_update_autonomous_data_warehouse: the two except clauses.
CreateOrUpdateExcept(ex) ==
    IF ex.type = "ServiceError" THEN FailJson(ex.message)
    ELSE IF ex.type = "ClientError" THEN FailJson(Str(ex))
    ELSE Uncaught(ex)

\* An exception raised below main(): only state=present runs inside a try.
Raise(p, ex) ==
    IF p.state = "present" THEN CreateOrUpdateExcept(ex) ELSE Uncaught(ex)

----------------------------------------------------------------------------
(* The Resource Client and the control plane behind it.                     *)

LifecycleStates ==
    {"PROVISIONING", "AVAILABLE", "STARTING", "STOPPING", "STOPPED",
     "RESTORE_IN_PROGRESS", "TERMINATING", "FAILED"}

Resource(id, ls, db, dn, cpu) ==
    [type |-> "AutonomousDataWarehouse", id |-> id, lifecycle_state |-> ls,
     db_name |-> db, display_name |-> dn, cpu_core_count |-> cpu]

\* oci.util.to_dict: the attributes of a model object as a dictionary.
to_dict(o) == [k \in DOMAIN o \ {"type"} |-> o[k]]

\* get_autonomous_data_warehouse: the snapshot, or None for NotFound.
Get(id) ==
    IF adw # None /\ id = Some(Val(adw).id) THEN adw ELSE None

\* The lifecycle state a poll of the wait helper observes.
Observed == IF adw = None THEN "TERMINATED" ELSE Val(adw).lifecycle_state

\* Whether the control plane takes the call in the resource's present state.
Accepts(fn, id) ==
    IF fn = "create" THEN adw = None
    ELSE /\ Get(id) # None
         /\ CASE fn = "start" -> Val(adw).lifecycle_state = "STOPPED"
              [] fn = "stop" -> Val(adw).lifecycle_state = "AVAILABLE"
              [] fn = "restore" -> Val(adw).lifecycle_state = "AVAILABLE"
              [] fn = "update" -> Val(adw).lifecycle_state = "AVAILABLE"
              [] fn = "delete" -> Val(adw).lifecycle_state # "TERMINATING"
              [] OTHER -> FALSE

\* The fault with which the control plane turns a call down.
Rejection(fn, id) ==
    IF fn # "create" /\ Get(id) = None THEN NotFoundError ELSE Conflict

Merge(old, payload) ==
    [k \in DOMAIN old |-> IF k \in DOMAIN payload THEN payload[k] ELSE old[k]]

\* The resource after the control plane has taken the call.
Effect(fn, details) ==
    CASE fn = "create" ->
            Some(Resource(Ocid, "PROVISIONING", Val(details).db_name,
                          Val(details).display_name, Val(details).cpu_core_count))
      [] fn = "update" -> Some(Merge(Val(adw), Val(details)))
      [] fn = "delete" -> Some([Val(adw) EXCEPT !.lifecycle_state = "TERMINATING"])
      [] fn = "restore" ->
            Some([Val(adw) EXCEPT !.lifecycle_state = "RESTORE_IN_PROGRESS"])
      [] fn = "start" -> Some([Val(adw) EXCEPT !.lifecycle_state = "STARTING"])
      [] fn = "stop" -> Some([Val(adw) EXCEPT !.lifecycle_state = "STOPPING"])

\* An entry of the call log.
Call(fn, id, details, outcome) ==
    [fn |-> fn, id |-> id, details |-> details, outcome |-> outcome, states |-> {}]

Ok == [type |-> "ok"]

NotFound == [type |-> "NotFound"]

WaitEntry(id, s) ==
    [fn |-> "wait", id |-> id, details |-> None, outcome |-> Ok, states |-> s]

TerminalStates == {"AVAILABLE", "STOPPED", "FAILED", "TERMINATED"}

\* The lifecycle states the resource moves to on its own.
NextLifecycle(ls) ==
    CASE ls = "PROVISIONING" -> {"AVAILABLE", "FAILED"}
      [] ls = "STARTING" -> {"AVAILABLE"}
      [] ls = "STOPPING" -> {"STOPPED"}
      [] ls = "RESTORE_IN_PROGRESS" -> {"AVAILABLE", "FAILED"}
      [] ls = "TERMINATING" -> {"TERMINATED"}
      [] OTHER -> {}

\* The snapshot the wait helper returns when the wait ends.
WaitResult ==
    IF adw = None THEN [lifecycle_state |-> "TERMINATED"] ELSE to_dict(Val(adw))

----------------------------------------------------------------------------
(* The helper functions of oci_utils and oci_db_utils.                      *)

\* create_and_wait, execute_function_and_wait: the call, and on its success
\* the wait for one of the states sts.  prefix is the call log so far.
CallAndWait(prefix, fn, id, details, sts) ==
    \/ /\ Accepts(fn, id)
       /\ adw' = Effect(fn, details)
       /\ calls' = prefix \o <<Call(fn, id, details, Ok),
                               WaitEntry(IF fn = "create" THEN Some(Ocid) ELSE id, sts)>>
       /\ states' = sts
       /\ polls' = 0
       /\ pc' = "wait"
       /\ ref' = IF fn = "create" THEN "valid" ELSE ref
       /\ UNCHANGED result
    \/ \E ex \in Faults \cup (IF Accepts(fn, id) THEN {} ELSE {Rejection(fn, id)}) :
          /\ calls' = prefix \o <<Call(fn, id, details, ex)>>
          /\ result' = Raise(params, ex)
          /\ pc' = "done"
          /\ UNCHANGED <<adw, states, polls, ref>>

\* A get that raises: the exception leaves the helper.
GetRaises(id) ==
    \E ex \in Faults :
        /\ calls' = <<Call("get", id, None, ex)>>
        /\ result' = Raise(params, ex)
        /\ pc' = "done"
        /\ UNCHANGED <<adw, states, polls, ref>>

\* The attributes of the update model that the caller supplied.
UpdatePayload(p) == [a \in {b \in UpdateAttributeMap : p[b] # None} |-> p[a]]

\* check_and_update_resource: get the resource, send the supplied attributes.
CheckAndUpdateResource(id, payload) ==
    \/ GetRaises(id)
    \/ /\ Get(id) = None
       /\ calls' = <<Call("get", id, None, NotFound)>>
       /\ result' = Raise(params, NotFoundError)
       /\ pc' = "done"
       /\ UNCHANGED <<adw, states, polls, ref>>
    \/ /\ Get(id) # None
       /\ CallAndWait(<<Call("get", id, None, Ok)>>, "update", id, Some(payload),
                      {"AVAILABLE"})

\* delete_and_wait: get the resource; when it is there, delete it and wait.
DeleteAndWait(id) ==
    \/ GetRaises(id)
    \/ /\ Get(id) = None
       /\ calls' = <<Call("get", id, None, NotFound)>>
       /\ result' = ExitJson(FALSE, [lifecycle_state |-> "TERMINATED"])
       /\ pc' = "done"
       /\ UNCHANGED <<adw, states, polls, ref>>
    \/ /\ Get(id) # None
       /\ CallAndWait(<<Call("get", id, None, Ok)>>, "delete", id, None, {"TERMINATED"})

----------------------------------------------------------------------------
(* The module.                                                              *)

\* update_autonomous_data_warehouse.
update_autonomous_data_warehouse ==
    CheckAndUpdateResource(params.autonomous_data_warehouse_id, UpdatePayload(params))

\* create_autonomous_data_warehouse, reached through check_and_create_resource.
create_autonomous_data_warehouse ==
    CallAndWait(<<>>, "create", None, Some(CreateDetails(params)), {"AVAILABLE"})

\* main, state == "present": create_or_update_autonomous_data_warehouse.
create_or_update_autonomous_data_warehouse ==
    /\ pc = "main"
    /\ params.state = "present"
    /\ IF IsUpdate(params)
       THEN update_autonomous_data_warehouse
       ELSE create_autonomous_data_warehouse
    /\ UNCHANGED <<params, autonomous_data_warehouse, last_run>>

\* main, state == "absent": delete_autonomous_data_warehouse.
delete_autonomous_data_warehouse ==
    /\ pc = "main"
    /\ params.state = "absent"
    /\ DeleteAndWait(params.autonomous_data_warehouse_id)
    /\ UNCHANGED <<params, autonomous_data_warehouse, last_run>>

\* main, state == "restore": restore_autonomous_data_warehouse.
restore_autonomous_data_warehouse ==
    /\ pc = "main"
    /\ params.state = "restore"
    /\ CallAndWait(<<>>, "restore", params.autonomous_data_warehouse_id,
                   Some(RestoreDetails(params)), RestoreStates)
    /\ UNCHANGED <<params, autonomous_data_warehouse, last_run>>

\* A faulty variant of IsMissing: the check for a missing resource is left out.
IsMissing_Never(r) == FALSE

\* start_or_stop_autonomous_data_warehouse: if autonomous_data_warehouse is None.
IsMissing(r) == r = None

\* The exception start_or_stop_autonomous_data_warehouse ends in when the
\* resource is missing: the message is put together before the ClientError.
NotFoundForUpdate(id) ==
    IF id = None
    THEN TypeError
    ELSE ClientError("No Autonomous Data Warehouse with id " \o Val(id)
                     \o " is found for update")

\* main, the else branch: start_or_stop_autonomous_data_warehouse.
start_or_stop_autonomous_data_warehouse ==
    /\ pc = "main"
    /\ params.state \notin {"present", "absent", "restore"}
    /\ LET id == params.autonomous_data_warehouse_id IN
        \/ GetRaises(id) /\ UNCHANGED autonomous_data_warehouse
        \/ /\ IsMissing(Get(id))
           /\ calls' = <<Call("get", id, None, NotFound)>>
           /\ result' = Raise(params, NotFoundForUpdate(id))
           /\ pc' = "done"
           /\ UNCHANGED <<adw, states, polls, ref, autonomous_data_warehouse>>
        \/ /\ ~IsMissing(Get(id))
           /\ calls' = <<Call("get", id, None, IF Get(id) = None THEN NotFound ELSE Ok)>>
           /\ autonomous_data_warehouse' = Get(id)
           /\ pc' = "perform"
           /\ UNCHANGED <<adw, states, polls, ref, result>>
    /\ UNCHANGED <<params, last_run>>

\* perform_start_or_stop.
perform_start_or_stop ==
    /\ pc = "perform"
    /\ IF autonomous_data_warehouse = None
       THEN /\ result' = Raise(params, AttributeError)
            /\ pc' = "done"
            /\ UNCHANGED <<adw, calls, states, polls, ref>>
       ELSE IF Val(autonomous_data_warehouse).lifecycle_state
                  \notin IdempotentLifecycleState(params.state)
       THEN CallAndWait(calls, LifecycleFunc(params.state),
                        params.autonomous_data_warehouse_id, None,
                        TargetState(params.state))
       ELSE /\ result' = ExitJson(FALSE, to_dict(Val(autonomous_data_warehouse)))
            /\ pc' = "done"
            /\ UNCHANGED <<adw, calls, states, polls, ref>>
    /\ UNCHANGED <<params, autonomous_data_warehouse, last_run>>

\* The wait helper: poll until the resource is in one of the states.
wait_until ==
    /\ pc = "wait"
    /\ \/ /\ Observed \in states
          /\ result' = ExitJson(TRUE, WaitResult)
          /\ pc' = "done"
          /\ UNCHANGED <<calls, polls>>
       \/ \E ex \in Faults :
             /\ calls' = Append(calls, Call("get", calls[Len(calls)].id, None, ex))
             /\ result' = Raise(params, ex)
             /\ pc' = "done"
             /\ UNCHANGED polls
       \/ /\ Observed \in TerminalStates \ states
          /\ result' = Raise(params, WaitFailed(Observed))
          /\ pc' = "done"
          /\ UNCHANGED <<calls, polls>>
       \/ /\ Observed \notin TerminalStates \cup states
          /\ polls < MaxPolls
          /\ polls' = polls + 1
          /\ UNCHANGED <<calls, result, pc>>
       \/ /\ Observed \notin TerminalStates \cup states
          /\ polls = MaxPolls
          /\ result' = Raise(params, MaximumWaitTimeExceeded)
          /\ pc' = "done"
          /\ UNCHANGED <<calls, polls>>
    /\ UNCHANGED <<adw, params, autonomous_data_warehouse, states, ref, last_run>>

\* The resource moves on in its lifecycle, whatever the module does.
RemoteProgress ==
    /\ adw # None
    /\ \E ls \in NextLifecycle(Val(adw).lifecycle_state) :
          /\ adw' = IF ls = "TERMINATED"
                    THEN None
                    ELSE Some([Val(adw) EXCEPT !.lifecycle_state = ls])
          /\ ref' = IF ls = "TERMINATED" THEN "destroyed" ELSE ref
    /\ UNCHANGED <<pc, params, autonomous_data_warehouse, calls, states, polls, result,
                   last_run>>

\* The module is run: AnsibleModule(argument_spec=module_args), up to the dispatch.
main ==
    /\ pc = "idle"
    /\ \E p \in Params : params' = p
    /\ pc' = "main"
    /\ UNCHANGED <<adw, autonomous_data_warehouse, calls, states, polls, result, ref,
                   last_run>>

NoRun == [state |-> "none", outcome |-> "none"]

\* What a run leaves behind for the caller: the state it was given and
\* whether it reported a change, no change or a failure.
RunRecord(p, r) ==
    [state |-> p.state,
     outcome |-> IF r.kind # "exit_json" THEN "failed"
                 ELSE IF r.changed THEN "changed" ELSE "unchanged"]

\* The process ends; the next run starts from fresh locals.
Exit ==
    /\ pc = "done"
    /\ last_run' = RunRecord(params, result)
    /\ pc' = "idle"
    /\ params' = NoParams
    /\ autonomous_data_warehouse' = None
    /\ calls' = <<>>
    /\ states' = {}
    /\ polls' = 0
    /\ result' = NoResult
    /\ UNCHANGED <<adw, ref>>

Init ==
    /\ adw = None
    /\ pc = "idle"
    /\ params = NoParams
    /\ autonomous_data_warehouse = None
    /\ calls = <<>>
    /\ states = {}
    /\ polls = 0
    /\ result = NoResult
    /\ ref = "none"
    /\ last_run = NoRun

Next ==
    \/ main
    \/ create_or_update_autonomous_data_warehouse
    \/ delete_autonomous_data_warehouse
    \/ restore_autonomous_data_warehouse
    \/ start_or_stop_autonomous_data_warehouse
    \/ perform_start_or_stop
    \/ wait_until
    \/ RemoteProgress
    \/ Exit

Spec == Init /\ [][Next]_vars

----------------------------------------------------------------------------
(* What the claims speak of.                                                *)

MutatingFns == {"create", "update", "delete", "restore", "start", "stop"}

\* The places in the call log where fn was called.
Issued(fn) == {i \in 1..Len(calls) : calls[i].fn = fn}

Mutating == {i \in 1..Len(calls) : calls[i].fn \in MutatingFns}

\* The record fields of a snapshot.
SnapshotKeys == {"id", "lifecycle_state", "db_name", "display_name", "cpu_core_count"}

\* The dictionary d holds what the model object o holds.
SameSnapshot(d, o) ==
    /\ DOMAIN d = SnapshotKeys
    /\ \A k \in SnapshotKeys : d[k] = o[k]

\* The invocation is a start or stop that found the resource in state ls.
StartOrStopFound(s, ls) ==
    /\ params.state = s
    /\ pc \in {"wait", "done"}
    /\ autonomous_data_warehouse # None
    /\ Val(autonomous_data_warehouse).lifecycle_state = ls

\* C1: a start that finds the resource AVAILABLE or STARTING, and a stop
\* that finds it STOPPED or STOPPING, calls nothing but the initial get,
\* waits for nothing, reports changed=false and returns the snapshot that
\* get returned.
C1_IdempotentNoOp ==
    \A s \in {"start", "stop"} :
        \A ls \in (IF s = "start" THEN {"AVAILABLE", "STARTING"}
                    ELSE {"STOPPED", "STOPPING"}) :
            StartOrStopFound(s, ls) =>
                /\ pc = "done"
                /\ Mutating = {}
                /\ Issued("wait") = {}
                /\ Len(calls) = 1
                /\ result.kind = "exit_json"
                /\ result.changed = FALSE
                /\ SameSnapshot(result.autonomous_data_warehouse,
                                Val(autonomous_data_warehouse))

\* C1 happens: a start found the resource STARTING and ended unchanged,
\* while the resource itself has moved on since the get.
C1_Witness ==
    /\ StartOrStopFound("start", "STARTING")
    /\ pc = "done"
    /\ result.kind = "exit_json"
    /\ adw # None
    /\ Val(adw).lifecycle_state = "AVAILABLE"

Supplied == {a \in {"display_name", "cpu_core_count"} : params[a] # None}

\* In every state of a run with state=present and an identifier: no create,
\* no mutating call but the update that follows the helper's get, and in
\* that update exactly the attributes the caller gave, with their values.
C4_OnlySupplied ==
    (params.state = "present" /\ params.autonomous_data_warehouse_id # None
        /\ pc \in {"wait", "done"}) =>
        /\ Issued("create") = {}
        /\ Mutating \subseteq {2}
        /\ calls[1].outcome = Ok =>
              /\ Issued("update") = {2}
              /\ calls[2].id = params.autonomous_data_warehouse_id
              /\ DOMAIN Val(calls[2].details) = Supplied
              /\ \A a \in Supplied : Val(calls[2].details)[a] = params[a]

\* The step in which the control plane takes the update leaves every
\* attribute the caller did not give as it was, and sets the others.
C4_Step ==
    (pc = "main" /\ params.state = "present" /\ pc' = "wait"
        /\ params.autonomous_data_warehouse_id # None) =>
        /\ adw # None
        /\ adw' # None
        /\ \A a \in SnapshotKeys :
              Val(adw')[a] = IF a \in Supplied THEN params[a] ELSE Val(adw)[a]

\* C4: a run with state=present and an identifier issues no create and,
\* once the helper's get has returned the resource, exactly one update,
\* whose payload holds only the attributes the caller gave; an attribute
\* left unset is not in the payload and keeps its remote value.
C4_PartialUpdate == [][C4_OnlySupplied' /\ C4_Step]_vars

\* C4 happens: an update that gave only a display name went through; the
\* core count the resource was created with is still there.
C4_Witness ==
    /\ params.state = "present"
    /\ params.autonomous_data_warehouse_id = Some(Ocid)
    /\ params.display_name = Some("dw2")
    /\ params.cpu_core_count = None
    /\ pc = "done"
    /\ Issued("update") = {2}
    /\ calls[2].outcome = Ok
    /\ result.kind = "exit_json"
    /\ adw # None
    /\ Val(adw).display_name = Some("dw2")
    /\ Val(adw).cpu_core_count = Some(2)

\* C5: a run with state=absent and no identifier issues no remote call at
\* all, neither get nor delete, and reports changed=false.
C5_AbsentWithoutIdCallsNothing ==
    (params.state = "absent" /\ params.autonomous_data_warehouse_id = None
        /\ pc = "done") =>
        /\ calls = <<>>
        /\ result.kind = "exit_json"
        /\ result.changed = FALSE

C7_PreconditionError ==
    (params.state \in {"start", "stop"} /\ pc = "done"
        /\ Len(calls) >= 1 /\ calls[1].outcome = NotFound) =>
        /\ Issued("start") \cup Issued("stop") = {}
        /\ \/ result.kind = "fail_json"
           \/ result.kind = "exception" /\ result.exc.type = "ClientError"

\* The message of a fault, as the fault holds it.
FaultMessage(f) == IF f.type = "ServiceError" THEN f.message ELSE f.args[1]

\* C8: whatever the desired state, a remote call that raises a service
\* fault or a transport fault is the last thing the invocation does: no
\* call follows it, the run does not end in exit_json, and the caller gets
\* the fault's own message, in fail_json or in the exception itself.
C8_FaultAborts ==
    \A i \in 1..Len(calls) :
        calls[i].outcome.type \in {"ServiceError", "ClientError", "RequestException"} =>
            /\ i = Len(calls)
            /\ pc = "done"
            /\ result.kind \in {"fail_json", "exception"}
            /\ IF result.kind = "fail_json"
               THEN result.msg = FaultMessage(calls[i].outcome)
               ELSE result.exc = calls[i].outcome

\* C8 happens: the update call of a state=present run was turned down by
\* the client after the get had gone through.
C8_Witness ==
    /\ params.state = "present"
    /\ pc = "done"
    /\ Len(calls) = 2
    /\ calls[2].fn = "update"
    /\ calls[2].outcome.type = "ClientError"
    /\ result = FailJson("invalid request")

\* The mutating calls the decision table gives a desired state.
Assigned(s) ==
    CASE s = "present" -> {"create", "update"}
      [] s = "absent" -> {"delete"}
      [] s = "restore" -> {"restore"}
      [] s = "start" -> {"start"}
      [] s = "stop" -> {"stop"}
      [] OTHER -> {}

\* C9: an invocation issues at most one mutating call, and its kind is one
\* the decision table gives the desired state.
C9_OneAssignedCall ==
    /\ Cardinality(Mutating) <= 1
    /\ \A i \in Mutating : calls[i].fn \in Assigned(params.state)

\* C9 happens: a start found the resource STOPPED, issued its one call and
\* ended with the resource AVAILABLE.
C9_Witness ==
    /\ StartOrStopFound("start", "STOPPED")
    /\ pc = "done"
    /\ Mutating = {2}
    /\ result.kind = "exit_json"
    /\ result.autonomous_data_warehouse.lifecycle_state = "AVAILABLE"

\* A step of the module itself, in a run that is not a delete.
ModuleStepNotDelete ==
    /\ pc' # pc
    /\ params.state \in {"present", "restore", "start", "stop"}

C10_Step ==
    \* the identifier becomes valid only through a create that went through
    /\ (adw = None /\ adw' # None) =>
          /\ params.state = "present"
          /\ pc' = "wait"
          /\ calls'[Len(calls') - 1].fn = "create"
          /\ calls'[Len(calls') - 1].outcome = Ok
          /\ Val(adw').id = Ocid
    \* it stays valid across update, restore, start and stop
    /\ (adw # None /\ ModuleStepNotDelete) =>
          /\ adw' # None
          /\ Val(adw').id = Val(adw).id
          /\ Val(adw').lifecycle_state = "TERMINATING" =>
                Val(adw).lifecycle_state = "TERMINATING"
    \* it is invalid once a delete has completed
    /\ (adw # None /\ adw' = None) =>
          /\ Val(adw).lifecycle_state = "TERMINATING"
          /\ ref' = "destroyed"
    /\ (ref' = "valid") = (adw' # None)
    \* and a start or stop for it then ends in the precondition error
    /\ (pc = "main" /\ pc' # "main" /\ params.state \in {"start", "stop"}
           /\ ref = "destroyed"
           /\ params.autonomous_data_warehouse_id = Some(Ocid)) =>
          /\ pc' = "done"
          /\ result'.kind = "exception"
          /\ \A i \in 1..Len(calls') : calls'[i].fn = "get"
          /\ calls'[1].outcome = NotFound =>
                result'.exc =
                    [type |-> "ClientError",
                     args |-> <<"No Autonomous Data Warehouse with id x is found for update">>]

\* C10: over any sequence of invocations the identifier becomes valid only
\* through a successful create, stays valid across update, restore, start
\* and stop, and is invalid once a delete has completed; a start or stop
\* issued for it after that issues no start or stop call and, its get
\* having found nothing, ends in the precondition error.
C10_RefLifecycle == [][C10_Step]_vars

\* C10 happens: the resource was created and deleted, and a later stop for
\* its identifier ended in the precondition error.
C10_Witness ==
    /\ ref = "destroyed"
    /\ params.state = "stop"
    /\ params.autonomous_data_warehouse_id = Some(Ocid)
    /\ pc = "done"
    /\ calls = <<Call("get", Some(Ocid), None, NotFound)>>
    /\ result.kind = "exception"
    /\ result.exc.type = "ClientError"

\* The step in which a wait gives up: the resource is in none of the states
\* waited for and in no terminal state, and no poll has raised.
TimeoutStep ==
    /\ pc = "wait"
    /\ pc' = "done"
    /\ calls' = calls
    /\ Observed \notin states \cup TerminalStates

C11_Step ==
    \* the run reports failure; the one mutating call and the one wait stay
    \* the only ones, and the resource is left as it is
    /\ TimeoutStep =>
          /\ result'.kind \in {"fail_json", "exception"}
          /\ Cardinality(Mutating) = 1
          /\ Issued("wait") = {Len(calls)}
          /\ Mutating = {Len(calls) - 1}
          /\ calls[Len(calls) - 1].outcome = Ok
          /\ adw' = adw
    \* and a run that has ended calls nothing any more
    /\ pc = "done" =>
          \/ pc' = "idle"
          \/ pc' = "done" /\ calls' = calls /\ result' = result

\* C11: when the wait after a mutating call times out, the run reports
\* failure; it does not issue the call again, starts no second wait and
\* makes no compensating call, and the resource stays in the lifecycle
\* state it had reached.
C11_TimeoutNoRetry == [][C11_Step]_vars

\* C11 happens: a create was taken, the wait for AVAILABLE timed out, and
\* the resource is still PROVISIONING after the run has failed.
C11_Witness ==
    /\ params.state = "present"
    /\ pc = "done"
    /\ Issued("create") = {1}
    /\ calls[1].outcome = Ok
    /\ Len(calls) = 2
    /\ polls = MaxPolls
    /\ result = Uncaught(MaximumWaitTimeExceeded)
    /\ adw # None
    /\ Val(adw).lifecycle_state = "PROVISIONING"

\* The run before this one was a start (a stop) that reported a change.
Succeeded(s) == last_run = [state |-> s, outcome |-> "changed"]

\* A start or stop reports a change only after a wait, and then returns the
\* resource AVAILABLE (start) or STOPPED (stop).
ChangedMeansReached ==
    (params.state \in {"start", "stop"} /\ pc = "done"
        /\ result.kind = "exit_json" /\ result.changed) =>
        /\ Issued("wait") # {}
        /\ result.autonomous_data_warehouse.lifecycle_state =
              (IF params.state = "start" THEN "AVAILABLE" ELSE "STOPPED")

\* C12: right after a start (a stop) whose wait ended in AVAILABLE
\* (STOPPED), a start or stop for the same resource finds it there, and
\* once its get has returned, the same request again issues no mutating
\* call and reports changed=false, while the opposite request issues
\* exactly one mutating call, its own.
C12_Consecutive ==
    /\ ChangedMeansReached
    /\ \A s \in {"start", "stop"} :
          (Succeeded(s) /\ params.state \in {"start", "stop"}
              /\ params.autonomous_data_warehouse_id = Some(Ocid)
              /\ pc \in {"wait", "done"}) =>
              /\ calls[1].outcome # NotFound
              /\ calls[1].outcome = Ok =>
                    IF params.state = s
                    THEN /\ pc = "done"
                         /\ Mutating = {}
                         /\ result.kind = "exit_json"
                         /\ result.changed = FALSE
                    ELSE /\ Cardinality(Mutating) = 1
                         /\ Issued(params.state) = Mutating

\* C12 happens: a start that had waited for AVAILABLE is followed by a
\* second start, which calls nothing but get and reports no change.
C12_Witness ==
    /\ Succeeded("start")
    /\ params.state = "start"
    /\ params.autonomous_data_warehouse_id = Some(Ocid)
    /\ pc = "done"
    /\ Mutating = {}
    /\ result.kind = "exit_json"
    /\ result.changed = FALSE
    /\ result.autonomous_data_warehouse.lifecycle_state = "AVAILABLE"

====
